---- MODULE Spec2Model ----
(***************************************************************************)
(* The jyotish method-channel plugin stubs (Linux/GTK and Windows), run    *)
(* side by side under one host: the host registers the plugin, dispatches  *)
(* method calls to the installed handler and tears the plugin down.        *)
(* The host (the Flutter embedder) is the environment: it decides when the *)
(* entry points of the two source files run.                               *)
(***************************************************************************)
EXTENDS Integers, Sequences, FiniteSets, TLC

VARIABLES linux, windows, host

vars == <<linux, windows, host>>

\* ------------------------------------------------------------ bounds, inputs

\* Largest number of method calls the host dispatches in one run.
MaxCalls == 3

\* Method names and argument payloads a call envelope may carry.
Methods == {"getData", "anything", "dispose"}
Args == {"{}", "{x: 1}"}

Envelopes == [name : Methods, args : Args]

\* The result kinds of the method codec.
NotImplemented == [kind |-> "NotImplemented"]
Success == [kind |-> "Success"]
Error == [kind |-> "Error"]

\* An FlMethodCall / (MethodCall, MethodResult) pair as the host hands it to
\* the handler: the envelope and the responses sent for it so far.
NewMethodCall(env) == [name |-> env.name, args |-> env.args, responses |-> <<>>]

\* ------------------------------------------------------------ Linux (GObject)

NoPlugin == [ref_count |-> 0, alive |-> FALSE, disposed |-> 0]
NoChannel == [name |-> "", codec |-> "", handler |-> "none",
              user_data |-> "none", destroy_notify |-> "none"]

jyotish_plugin_dispose(object) ==
    [object EXCEPT !.alive = FALSE, !.disposed = @ + 1]

g_object_new == [ref_count |-> 1, alive |-> TRUE, disposed |-> 0]

g_object_ref(object) == [object EXCEPT !.ref_count = @ + 1]

\* Dropping the last reference runs dispose; a release of an object without
\* references only lowers the count.
g_object_unref(object) ==
    IF object.ref_count = 1
    THEN jyotish_plugin_dispose([object EXCEPT !.ref_count = 0])
    ELSE [object EXCEPT !.ref_count = @ - 1]

fl_method_channel_new(name, codec) ==
    [name |-> name, codec |-> codec, handler |-> "none",
     user_data |-> "none", destroy_notify |-> "none"]

fl_method_channel_set_method_call_handler(channel, handler, user_data, notify) ==
    [channel EXCEPT !.handler = handler, !.user_data = user_data,
                    !.destroy_notify = notify]

\* The response is sent on the call; the boolean result is what the caller
\* may look at (the plugin does not).
fl_method_call_respond_not_implemented(method_call) ==
    [method_call |-> [method_call EXCEPT
                        !.responses = Append(@, NotImplemented)],
     ok |-> TRUE]

\* Faulty variants of the Linux handler, for checking that the properties
\* below depend on it.
\* It implements "getData".
handle_method_call_implements_getData(self, method_call) ==
    [self |-> self,
     method_call |->
        IF method_call.name = "getData"
        THEN [method_call EXCEPT !.responses = Append(@, Success)]
        ELSE fl_method_call_respond_not_implemented(method_call).method_call,
     retained |-> <<>>]

\* It takes a reference to the plugin on every call and never drops it.
handle_method_call_leaks_ref(self, method_call) ==
    [self |-> g_object_ref(self),
     method_call |->
        fl_method_call_respond_not_implemented(method_call).method_call,
     retained |-> <<>>]

\* It drops a reference to the plugin it does not own.
handle_method_call_unrefs_self(self, method_call) ==
    [self |-> g_object_unref(self),
     method_call |->
        fl_method_call_respond_not_implemented(method_call).method_call,
     retained |-> <<>>]

\* Result: the plugin object, the call, and the calls kept for a later answer.
jyotish_plugin_handle_method_call(self, method_call) ==
    [self |-> self,
     method_call |->
        fl_method_call_respond_not_implemented(method_call).method_call,
     retained |-> <<>>]

method_call_cb(channel, method_call, user_data) ==
    jyotish_plugin_handle_method_call(user_data, method_call)

\* Faulty variants of the Linux registration.
\* The handler is never installed on the channel.
register_without_handler ==
    LET plugin  == g_object_new
        channel == fl_method_channel_new("jyotish", "standard")
    IN  [plugin |-> g_object_unref(plugin), channel |-> channel]

\* The local reference is not dropped at the end.
register_keeps_local_ref ==
    LET plugin  == g_object_new
        channel == fl_method_channel_new("jyotish", "standard")
        held    == g_object_ref(plugin)
        bound   == fl_method_channel_set_method_call_handler(
                       channel, "method_call_cb", "plugin", "g_object_unref")
    IN  [plugin |-> held, channel |-> bound]

\* The handler gets the plugin without a reference of its own.
register_borrowed_user_data ==
    LET plugin  == g_object_new
        channel == fl_method_channel_new("jyotish", "standard")
        bound   == fl_method_channel_set_method_call_handler(
                       channel, "method_call_cb", "plugin", "g_object_unref")
    IN  [plugin |-> g_object_unref(plugin), channel |-> bound]

\* The plugin and the channel as registration leaves them.
jyotish_plugin_register_with_registrar ==
    LET plugin  == g_object_new
        codec   == "standard"
        channel == fl_method_channel_new("jyotish", codec)
        held    == g_object_ref(plugin)
        bound   == fl_method_channel_set_method_call_handler(
                       channel, "method_call_cb", "plugin", "g_object_unref")
    IN  [plugin |-> g_object_unref(held), channel |-> bound]

\* ------------------------------------------------------------ Windows (C++)

NoWinPlugin == [alive |-> FALSE, destroyed |-> 0, owner |-> "none"]
NoWinChannel == [name |-> "", codec |-> "", handler |-> "none",
                 plugin_pointer |-> "null"]

make_unique_JyotishPlugin == [alive |-> TRUE, destroyed |-> 0, owner |-> "local"]

JyotishPlugin_destructor(plugin) ==
    [plugin EXCEPT !.alive = FALSE, !.destroyed = @ + 1, !.owner = "none"]

make_unique_MethodChannel(name, codec) ==
    [name |-> name, codec |-> codec, handler |-> "none",
     plugin_pointer |-> "null"]

SetMethodCallHandler(channel, plugin_pointer) ==
    [channel EXCEPT !.handler = "lambda", !.plugin_pointer = plugin_pointer]

AddPlugin(plugin) == [plugin EXCEPT !.owner = "registrar"]

\* The unique_ptr local of RegisterWithRegistrar goes out of scope: it
\* destroys the plugin unless the plugin was moved out of it.
ScopeExit(plugin) ==
    IF plugin.owner = "local" THEN JyotishPlugin_destructor(plugin) ELSE plugin

MethodResult_NotImplemented(method_call) ==
    [method_call EXCEPT !.responses = Append(@, NotImplemented)]

\* Faulty variants of the Windows handler.
\* It answers twice.
HandleMethodCall_answers_twice(self, method_call) ==
    [self |-> self,
     method_call |-> MethodResult_NotImplemented(
                         MethodResult_NotImplemented(method_call)),
     retained |-> <<>>]

\* It keeps the result object for a later answer and returns.
HandleMethodCall_deferred(self, method_call) ==
    [self |-> self, method_call |-> method_call, retained |-> <<method_call>>]

\* It answers with a value.
HandleMethodCall_success(self, method_call) ==
    [self |-> self,
     method_call |-> [method_call EXCEPT !.responses = Append(@, Success)],
     retained |-> <<>>]

HandleMethodCall(self, method_call) ==
    [self |-> self,
     method_call |-> MethodResult_NotImplemented(method_call),
     retained |-> <<>>]

\* Faulty variant of the Windows registration: the plugin is not handed to
\* the registrar.
RegisterWithRegistrar_without_AddPlugin ==
    LET channel == make_unique_MethodChannel("jyotish", "standard")
        plugin  == make_unique_JyotishPlugin
        bound   == SetMethodCallHandler(channel, "plugin")
    IN  [plugin |-> ScopeExit(plugin), channel |-> bound]

RegisterWithRegistrar ==
    LET channel == make_unique_MethodChannel("jyotish", "standard")
        plugin  == make_unique_JyotishPlugin
        bound   == SetMethodCallHandler(channel, "plugin")
    IN  [plugin |-> ScopeExit(AddPlugin(plugin)), channel |-> bound]

\* What a call through the captured raw pointer can do once the plugin it
\* points to is destroyed: the call is answered, or the process dies before
\* any answer.
DanglingOutcomes == {<<NotImplemented>>, <<>>}

\* ------------------------------------------------------------ host

HandlerReleased == \E i \in 1..Len(host.teardown) : host.teardown[i] = "handler"
PluginsCleared == \E i \in 1..Len(host.teardown) : host.teardown[i] = "plugins"

Init ==
    /\ linux = [plugin |-> NoPlugin, channel |-> NoChannel,
                retained |-> <<>>, log |-> <<>>]
    /\ windows = [plugin |-> NoWinPlugin, channel |-> NoWinChannel,
                  retained |-> <<>>, log |-> <<>>]
    /\ host = [registered |-> FALSE, teardown |-> <<>>]

\* The host's plugin registrant runs both registration entry points once.
HostRegister ==
    /\ ~host.registered
    /\ host' = [host EXCEPT !.registered = TRUE]
    /\ linux' = [linux EXCEPT
                   !.plugin = jyotish_plugin_register_with_registrar.plugin,
                   !.channel = jyotish_plugin_register_with_registrar.channel]
    /\ windows' = [windows EXCEPT
                   !.plugin = RegisterWithRegistrar.plugin,
                   !.channel = RegisterWithRegistrar.channel]

\* The Linux channel delivers one call to its handler.
LinuxDispatch(env) ==
    IF linux.channel.handler = "none" THEN linux
    ELSE LET r == method_call_cb(linux.channel, NewMethodCall(env), linux.plugin)
         IN [linux EXCEPT
               !.plugin = r.self,
               !.retained = @ \o r.retained,
               !.log = Append(@, [sent |-> env, call |-> r.method_call,
                                  alive |-> linux.plugin.alive])]

\* The Windows channel delivers one call to the lambda, which calls through
\* plugin_pointer.
WindowsDispatch(env, dangling) ==
    IF windows.channel.handler = "none" THEN windows
    ELSE IF windows.plugin.alive
    THEN LET r == HandleMethodCall(windows.plugin, NewMethodCall(env))
         IN [windows EXCEPT
               !.plugin = r.self,
               !.retained = @ \o r.retained,
               !.log = Append(@, [sent |-> env, call |-> r.method_call,
                                  alive |-> TRUE])]
    ELSE [windows EXCEPT
               !.log = Append(@, [sent |-> env,
                                  call |-> [NewMethodCall(env) EXCEPT
                                              !.responses = dangling],
                                  alive |-> FALSE])]

HostDispatch ==
    /\ host.registered
    /\ ~HandlerReleased
    /\ Len(linux.log) < MaxCalls
    /\ \E env \in Envelopes, dangling \in DanglingOutcomes :
          /\ linux' = LinuxDispatch(env)
          /\ windows' = WindowsDispatch(env, dangling)
    /\ UNCHANGED host

\* The host destroys the channel's handler: the handler's destroy
\* notification runs on its user_data (Linux), the lambda and its capture
\* are destroyed (Windows).
HostReleaseHandler ==
    /\ host.registered
    /\ ~HandlerReleased
    /\ host' = [host EXCEPT !.teardown = Append(@, "handler")]
    /\ linux' = [linux EXCEPT
                   !.plugin = IF linux.channel.destroy_notify = "g_object_unref"
                              THEN g_object_unref(@) ELSE @,
                   !.channel = [@ EXCEPT !.handler = "none",
                                         !.user_data = "none",
                                         !.destroy_notify = "none"]]
    /\ windows' = [windows EXCEPT
                   !.channel = [@ EXCEPT !.handler = "none",
                                         !.plugin_pointer = "null"]]

\* The host destroys the registrar, and with it the plugins it owns.
HostClearPlugins ==
    /\ host.registered
    /\ ~PluginsCleared
    /\ host' = [host EXCEPT !.teardown = Append(@, "plugins")]
    /\ windows' = [windows EXCEPT
                   !.plugin = IF @.owner = "registrar"
                              THEN JyotishPlugin_destructor(@) ELSE @]
    /\ UNCHANGED linux

Next ==
    \/ HostRegister
    \/ HostDispatch
    \/ HostReleaseHandler
    \/ HostClearPlugins

Spec == Init /\ [][Next]_vars

\* ------------------------------------------------------------ observations

\* The two lifecycle states of the stub, and what follows teardown.
Lifecycle(p) ==
    IF p.channel.name = "" THEN "Unregistered"
    ELSE IF p.channel.handler # "none" /\ p.plugin.alive THEN "Registered"
    ELSE "TornDown"

Results(p) == [i \in 1..Len(p.log) |-> p.log[i].call.responses]

\* What the host and the Dart side can see of an adapter.
Observable(p) ==
    [channel |-> p.channel.name, lifecycle |-> Lifecycle(p),
     results |-> Results(p)]

\* The log entries of calls that reached a live stub.
Delivered(p) == {i \in 1..Len(p.log) : p.log[i].alive}

\* The host destroyed the plugins while the handler could still be called.
Dangling == PluginsCleared /\ ~HandlerReleased

\* No call went through a handler whose plugin the host had destroyed.
HostKeptOrder == ~Dangling /\ \A i \in 1..Len(windows.log) : windows.log[i].alive

Registered == host.registered /\ host.teardown = <<>>

\* ------------------------------------------------------------ claims

\* C1: every call delivered to a registered stub, whatever its method name
\* and arguments, is answered NotImplemented, never Success and never Error,
\* on Linux and on Windows.
C1_AlwaysNotImplemented ==
    \A p \in {linux, windows} : \A i \in Delivered(p) :
        LET rs == p.log[i].call.responses
        IN  /\ rs # <<>>
            /\ \A j \in 1..Len(rs) : rs[j] = NotImplemented
            /\ \A j \in 1..Len(rs) : rs[j] # Success /\ rs[j] # Error

C1_Witness ==
    /\ Len(linux.log) >= 2 /\ Len(windows.log) >= 2
    /\ linux.log[1].sent = [name |-> "getData", args |-> "{}"]
    /\ linux.log[2].sent = [name |-> "anything", args |-> "{x: 1}"]
    /\ windows.log[1].sent = linux.log[1].sent
    /\ windows.log[2].sent = linux.log[2].sent
    /\ Delivered(linux) = {1, 2} /\ Delivered(windows) = {1, 2}

\* C2: every call the handler has finished processing has exactly one
\* response: none is left unanswered and none is answered twice.
C2_ExactlyOneResult ==
    \A p \in {linux, windows} : \A i \in Delivered(p) :
        Len(p.log[i].call.responses) = 1

C2_Witness ==
    /\ HandlerReleased
    /\ Len(linux.log) >= 2 /\ Len(windows.log) = Len(linux.log)
    /\ Delivered(windows) = 1..Len(windows.log)

\* C3: the result of a call does not depend on the calls before it: all
\* delivered calls have the same result, and after any number of calls the
\* stub is in the state registration left it in, holding nothing of a call.
C3_CallsIndependent ==
    /\ \A p \in {linux, windows} : \A i, j \in Delivered(p) :
           p.log[i].call.responses = p.log[j].call.responses
    /\ Registered =>
           /\ linux.plugin = jyotish_plugin_register_with_registrar.plugin
           /\ windows.plugin = RegisterWithRegistrar.plugin
           /\ linux.retained = <<>> /\ windows.retained = <<>>

C3_Witness ==
    /\ Registered
    /\ Len(linux.log) >= 3
    /\ linux.log[1].sent = linux.log[3].sent
    /\ linux.log[2].sent.name # linux.log[1].sent.name
    /\ linux.log[2].sent.args # linux.log[1].sent.args

\* C4: handling a call changes nothing but the delivery of that call's
\* result: the lifecycle state, the channel binding, the plugin object with
\* its reference count or owner, and the envelope stay as they were.
C4_HandleCallFrame ==
    [][\A pp \in {<<linux, linux'>>, <<windows, windows'>>} :
         LET p == pp[1]
             q == pp[2]
         IN  Len(q.log) = Len(p.log) + 1 =>
               /\ q.plugin = p.plugin
               /\ q.channel = p.channel
               /\ q.retained = p.retained
               /\ Lifecycle(q) = Lifecycle(p)
               /\ host' = host
               /\ SubSeq(q.log, 1, Len(p.log)) = p.log
               /\ LET e == q.log[Len(q.log)]
                  IN  e.call.name = e.sent.name /\ e.call.args = e.sent.args]_vars

C4_Witness ==
    /\ Registered
    /\ Len(linux.log) >= 1 /\ Len(windows.log) >= 1
    /\ linux.channel.name = "jyotish" /\ linux.plugin.ref_count = 1
    /\ windows.channel.name = "jyotish" /\ windows.plugin.owner = "registrar"

\* C5: the stub leaves Unregistered only by registration, which makes it
\* Registered; it stays Registered through every step that is not a host
\* teardown step; and it never returns to Unregistered.
C5_Lifecycle ==
    [][\A pp \in {<<linux, linux'>>, <<windows, windows'>>} :
         LET before == Lifecycle(pp[1])
             after  == Lifecycle(pp[2])
         IN  /\ (before = "Unregistered" /\ after # "Unregistered") =>
                    (after = "Registered" /\ ~host.registered /\ host'.registered)
             /\ (before = "Registered" /\ host'.teardown = host.teardown) =>
                    after = "Registered"
             /\ before # "Unregistered" => after # "Unregistered"]_vars

C5_Witness ==
    /\ Lifecycle(linux) = "Registered" /\ Lifecycle(windows) = "Registered"
    /\ Len(linux.log) >= 2 /\ Len(windows.log) >= 2

\* C6: once registration has returned, a stub exists, the channel "jyotish"
\* with the standard method codec is bound, the dispatch handler is
\* installed on it, and the host owns the stub; registration is always
\* possible before that and has no other outcome.
C6_RegisterBinds ==
    /\ ~host.registered => ENABLED HostRegister
    /\ Registered =>
        /\ linux.plugin.alive
        /\ linux.channel = [name |-> "jyotish", codec |-> "standard",
                            handler |-> "method_call_cb", user_data |-> "plugin",
                            destroy_notify |-> "g_object_unref"]
        /\ windows.plugin.alive /\ windows.plugin.owner = "registrar"
        /\ windows.channel = [name |-> "jyotish", codec |-> "standard",
                              handler |-> "lambda", plugin_pointer |-> "plugin"]

C6_Witness ==
    /\ Registered
    /\ linux.log = <<>> /\ windows.log = <<>>
    /\ linux.channel.handler = "method_call_cb"
    /\ windows.channel.handler = "lambda"

\* C7: after registration the host holds the only owning reference. Linux:
\* the count is 1, the handler's reference, until the handler is destroyed,
\* then 0; dispose runs once and the count is never negative. Windows: the
\* registrar owns the plugin until it clears its plugins.
C7_HostOwnsStub ==
    /\ linux.plugin.ref_count >= 0 /\ linux.plugin.disposed <= 1
    /\ windows.plugin.destroyed <= 1 /\ windows.plugin.owner # "local"
    /\ (host.registered /\ ~HandlerReleased) =>
          /\ linux.plugin.ref_count = 1 /\ linux.plugin.disposed = 0
          /\ linux.channel.user_data = "plugin"
          /\ linux.channel.destroy_notify = "g_object_unref"
    /\ HandlerReleased =>
          /\ linux.plugin.ref_count = 0 /\ linux.plugin.disposed = 1
          /\ ~linux.plugin.alive
    /\ (host.registered /\ ~PluginsCleared) =>
          /\ windows.plugin.owner = "registrar" /\ windows.plugin.destroyed = 0
    /\ PluginsCleared =>
          /\ windows.plugin.owner = "none" /\ windows.plugin.destroyed = 1

C7_Witness ==
    /\ HandlerReleased /\ PluginsCleared
    /\ Len(linux.log) >= 1
    /\ linux.plugin.ref_count = 0 /\ linux.plugin.disposed = 1
    /\ windows.plugin.destroyed = 1

\* C8: a call is answered before its handler returns: between host steps no
\* delivered call is without an answer, and the stub keeps no call for later.
C8_Synchronous ==
    /\ linux.retained = <<>> /\ windows.retained = <<>>
    /\ \A p \in {linux, windows} : \A i \in Delivered(p) :
           p.log[i].call.responses # <<>>

C8_Witness ==
    /\ ~HandlerReleased
    /\ Len(linux.log) >= 1 /\ Len(windows.log) >= 1
    /\ linux.log[Len(linux.log)].call.responses # <<>>
    /\ windows.log[Len(windows.log)].alive
    /\ windows.log[Len(windows.log)].call.responses # <<>>

\* C9: an installed handler points to a live stub. Linux: always, the
\* handler holds its own reference. Windows: as long as the host has not
\* destroyed the registrar's plugins while the handler is installed.
C9_HandlerTargetAlive ==
    /\ linux.channel.handler # "none" => linux.plugin.alive
    /\ \A i \in 1..Len(linux.log) : linux.log[i].alive
    /\ (windows.channel.handler # "none" /\ ~PluginsCleared) =>
          windows.plugin.alive
    /\ (\E i \in 1..Len(windows.log) : ~windows.log[i].alive) => PluginsCleared

C9_Witness ==
    /\ Dangling
    /\ linux.channel.handler # "none" /\ linux.plugin.alive
    /\ windows.channel.handler # "none" /\ ~windows.plugin.alive
    /\ Len(linux.log) >= 2 /\ Len(windows.log) = Len(linux.log)
    /\ linux.log[Len(linux.log)].alive
    /\ ~windows.log[Len(windows.log)].alive

====
